---------------------------- MODULE Spec2Model ----------------------------
(***************************************************************************)
(* Reishandy_PathFindMove.js: the MoveTo command, the bounded A* search     *)
(* (findPath, getNeighbors) and the per-character pathfinding session      *)
(* (startPathfinding, updatePathfinding) driven by the per-frame update    *)
(* hook of Game_Event / Game_Player.  Reishandy_Toast.js: the message      *)
(* queue, its 500 ms timer and the toast windows.                          *)
(*                                                                         *)
(* Cells are <<x, y>> with 0-based coordinates as in the source.  A null   *)
(* reference is NULL (the empty tuple); a path is a sequence of cells.     *)
(* Directions are the engine's numpad codes: 2 down, 4 left, 6 right,      *)
(* 8 up.                                                                   *)
(***************************************************************************)
EXTENDS Integers, Sequences, FiniteSets, TLC

VARIABLES
    width,                  \* $gameMap.width()
    height,                 \* $gameMap.height()
    blocked,                \* tile flags: <<x, y, d>> in it iff the tile (x,y) cannot be left/entered in direction d
    chars,                  \* the characters on the map, with their session fields
    MAX_ITERATIONS,         \* plugin parameter MaxIteration
    THROUGH_IF_HARD_BLOCKED,\* plugin parameter ThroughIfHardBlocked
    search,                 \* the local variables of one running findPath call
    scan,                   \* the local variables of one running findClosestAccessiblePoint call
    external,               \* commands and moves of the other event so far (counted only where they are limited)
    moveTo,                 \* the last MoveTo command: its arguments, whether it called startPathfinding, the exception it let through
    MAX_TOASTS,             \* Reishandy_Toast parameter MaxToasts
    DISPLAY_TIME,           \* Reishandy_Toast parameter DisplayTime
    toastQueue,             \* Reishandy_Toast: the messages waiting
    isProcessingQueue,      \* Reishandy_Toast: a message was taken and the 500 ms timer has not fired since
    timeouts,               \* the callbacks of setTimeout that have not run yet (their number)
    sceneWindows,           \* the Window_Toast objects added to the scene, in the order of their creation
    activeToasts,           \* SceneManager._scene._activeToasts: indices into sceneWindows, newest first
    calls                   \* the number of showToast calls so far; the message of the n-th call is n

pathVars == <<width, height, blocked, chars, MAX_ITERATIONS, THROUGH_IF_HARD_BLOCKED, search, scan, external, moveTo>>

toastVars ==
    <<MAX_TOASTS, DISPLAY_TIME, toastQueue, isProcessingQueue, timeouts, sceneWindows, activeToasts, calls>>

vars == <<pathVars, toastVars>>

---------------------------------------------------------------------------
(* Bounds of the model *)

MapWidth == 2
MapHeight == 2
SearchMapWidth == 3
SearchMapHeight == 3
MaxWalls == 1
StepFrames == 2
MaxStuck == 3
SmallCap == 2
MaxExternal == 3
CorridorLength == 7
MaxCommands == 1
LongCorridor == 8
WallAt == 2
MinDisplayTime == 30
MaxMoveTo == 1
MaxAgentCommands == 2
MaxMessages == 3
LongerDisplayTime == 40
MaxMaxToasts == 2
OpenWidth == 4
OpenHeight == 3
ScenarioSize == 10
ScenarioGoalX == 5
ScenarioGoalY == 7
ScenarioCap == 500

---------------------------------------------------------------------------
(* The map ($gameMap) and the engine's passability queries *)

NULL == <<>>

Cells == {<<x, y>> : x \in 0..(width - 1), y \in 0..(height - 1)}

Dirs == {2, 4, 6, 8}

Abs(n) == IF n < 0 THEN -n ELSE n

roundXWithDirection(x, d) == x + (IF d = 6 THEN 1 ELSE IF d = 4 THEN -1 ELSE 0)

roundYWithDirection(y, d) == y + (IF d = 2 THEN 1 ELSE IF d = 8 THEN -1 ELSE 0)

reverseDir(d) == 10 - d

isValid(x, y) == x >= 0 /\ x < width /\ y >= 0 /\ y < height

\* $gameMap.isPassable(x, y, d): the tile's own flag for direction d.
isPassable(x, y, d) == <<x, y, d>> \notin blocked

\* The mover and the other event.
Mover == 1

Other == 2

CharIds == {Mover, Other}

\* Mutant: other characters are never in the way.
isCollidedWithCharacters_Never(c, x, y) == FALSE

\* Game_CharacterBase.isCollidedWithCharacters: a non-through character stands there.
isCollidedWithCharacters(c, x, y) ==
    \E o \in CharIds \ {c} : chars[o].x = x /\ chars[o].y = y /\ ~chars[o].through

\* Game_CharacterBase.isMapPassable: both tiles of the edge allow it.
isMapPassable(x, y, d) ==
    /\ isPassable(x, y, d)
    /\ isPassable(roundXWithDirection(x, d), roundYWithDirection(y, d), reverseDir(d))

\* Game_CharacterBase.canPass for a character whose through flag is `through`.
canPassAs(c, through, x, y, d) ==
    LET x2 == roundXWithDirection(x, d)
        y2 == roundYWithDirection(y, d)
    IN  IF ~isValid(x2, y2) THEN FALSE
        ELSE IF through THEN TRUE
        ELSE IF ~isMapPassable(x, y, d) THEN FALSE
        ELSE IF isCollidedWithCharacters(c, x2, y2) THEN FALSE
        ELSE TRUE

\* this.canPass(x, y, d), as called at lines 243 and 416.
canPass(c, x, y, d) == canPassAs(c, chars[c].through, x, y, d)

---------------------------------------------------------------------------
(* getNeighbors *)

directions ==
    << [x |-> 0, y |-> -1, dir |-> 8],
       [x |-> 1, y |-> 0, dir |-> 6],
       [x |-> 0, y |-> 1, dir |-> 2],
       [x |-> -1, y |-> 0, dir |-> 4] >>

\* Mutant: the tile's own flag is not consulted.
IsCandidate_NoMapCheck(c, x, y, d, allowThrough) ==
    canPass(c, x, y, d) \/ allowThrough

\* The candidate rule of line 422 for leaving (x, y) in direction d.
IsCandidate(c, x, y, d, allowThrough) ==
    LET mapPassable == isPassable(x, y, d)
        characterPassable == canPass(c, x, y, d)
    IN  mapPassable /\ (characterPassable \/ allowThrough)

RECURSIVE NeighborsFrom(_, _, _, _)
NeighborsFrom(c, node, allowThrough, i) ==
    IF i > Len(directions) THEN <<>>
    ELSE LET direction == directions[i]
             x == node.x + direction.x
             y == node.y + direction.y
             rest == NeighborsFrom(c, node, allowThrough, i + 1)
         IN  IF /\ x >= 0 /\ x < width /\ y >= 0 /\ y < height
                /\ IsCandidate(c, node.x, node.y, direction.dir, allowThrough)
             THEN <<[x |-> x, y |-> y]>> \o rest
             ELSE rest

\* Mutant: the first direction (up) is left out.
getNeighbors_NoUp(c, node, allowThrough) == NeighborsFrom(c, node, allowThrough, 2)

getNeighbors(c, node, allowThrough) == NeighborsFrom(c, node, allowThrough, 1)

---------------------------------------------------------------------------
(* findPath: one loop iteration at a time *)

\* A node's parent is held as the parent's cell; every parent is in closedList.
MakeNode(x, y, g, h, f, parent) ==
    [x |-> x, y |-> y, g |-> g, h |-> h, f |-> f, parent |-> parent]

\* Index in list of the first node at (x, y), 0 when there is none.
RECURSIVE IndexOfCell(_, _, _, _)
IndexOfCell(list, x, y, i) ==
    IF i > Len(list) THEN 0
    ELSE IF list[i].x = x /\ list[i].y = y THEN i
    ELSE IndexOfCell(list, x, y, i + 1)

\* Mutant: the comparison the other way round, keeping the highest f.
RECURSIVE LowestF_Inverted(_, _, _)
LowestF_Inverted(openList, prev, i) ==
    IF i > Len(openList) THEN prev
    ELSE LowestF_Inverted(openList, IF openList[prev].f > openList[i].f THEN prev ELSE i, i + 1)

\* Mutant: of two nodes with the same f the earlier one is kept.
RECURSIVE LowestF_First(_, _, _)
LowestF_First(openList, prev, i) ==
    IF i > Len(openList) THEN prev
    ELSE LowestF_First(openList, IF openList[prev].f <= openList[i].f THEN prev ELSE i, i + 1)

\* openList.reduce((prev, curr) => prev.f < curr.f ? prev : curr), as an index.
RECURSIVE LowestF(_, _, _)
LowestF(openList, prev, i) ==
    IF i > Len(openList) THEN prev
    ELSE LowestF(openList, IF openList[prev].f < openList[i].f THEN prev ELSE i, i + 1)

RemoveAt(list, i) == SubSeq(list, 1, i - 1) \o SubSeq(list, i + 1, Len(list))

\* Mutant: the start node is left out of the path.
RECURSIVE BuildPath_DropStart(_, _, _)
BuildPath_DropStart(closedList, node, path) ==
    IF node.parent = NULL THEN path
    ELSE BuildPath_DropStart(closedList,
                             closedList[IndexOfCell(closedList, node.parent[1], node.parent[2], 1)],
                             <<<<node.x, node.y>>>> \o path)

\* Mutant: the nodes are appended (push for unshift): the path runs goal to start.
RECURSIVE BuildPath_Reversed(_, _, _)
BuildPath_Reversed(closedList, node, path) ==
    LET extended == path \o <<<<node.x, node.y>>>>
    IN  IF node.parent = NULL THEN extended
        ELSE BuildPath_Reversed(closedList,
                                closedList[IndexOfCell(closedList, node.parent[1], node.parent[2], 1)],
                                extended)

\* Lines 327-333: walk the parent links back to the start.
RECURSIVE BuildPath(_, _, _)
BuildPath(closedList, node, path) ==
    LET extended == <<<<node.x, node.y>>>> \o path
    IN  IF node.parent = NULL THEN extended
        ELSE BuildPath(closedList,
                       closedList[IndexOfCell(closedList, node.parent[1], node.parent[2], 1)],
                       extended)

\* Lines 342-378: the loop over the neighbors of currentNode.
RECURSIVE ProcessNeighbors(_, _, _, _, _, _)
ProcessNeighbors(openList, closedList, currentNode, neighbors, target, i) ==
    IF i > Len(neighbors) THEN openList
    ELSE LET neighbor == neighbors[i]
             g == currentNode.g + 1
             h == Abs(neighbor.x - target[1]) + Abs(neighbor.y - target[2])
             f == g + h
             existing == IndexOfCell(openList, neighbor.x, neighbor.y, 1)
             here == <<currentNode.x, currentNode.y>>
             nextOpen ==
                 IF IndexOfCell(closedList, neighbor.x, neighbor.y, 1) > 0 THEN openList
                 ELSE IF existing > 0
                      THEN IF g < openList[existing].g
                           THEN [openList EXCEPT ![existing] =
                                    MakeNode(neighbor.x, neighbor.y, g, openList[existing].h, f, here)]
                           ELSE openList
                      ELSE Append(openList, MakeNode(neighbor.x, neighbor.y, g, h, f, here))
         IN  CHOOSE r \in {ProcessNeighbors(open, closedList, currentNode, neighbors, target, i + 1) :
                               open \in {nextOpen}} : TRUE

\* Lines 291-312: the state of findPath before the loop.
SearchStart(c, targetX, targetY, allowThrough) ==
    [ mover |-> c,
      target |-> <<targetX, targetY>>,
      allowThrough |-> allowThrough,
      iterations |-> 0,
      openList |-> <<MakeNode(chars[c].x, chars[c].y, 0, 0, 0, NULL)>>,
      closedList |-> <<>>,
      returned |-> FALSE,
      path |-> <<>> ]

\* Mutant: the loop runs until the open list is empty.
LoopGuard_NoLimit(s) == Len(s.openList) > 0

\* Line 314: the loop condition.
LoopGuard(s) == Len(s.openList) > 0 /\ s.iterations < MAX_ITERATIONS

\* Lines 314-382: one evaluation of the loop condition and, if it holds, one iteration.
SearchIterate(s) ==
    IF ~LoopGuard(s) THEN [s EXCEPT !.returned = TRUE, !.path = <<>>]
    ELSE LET cur == LowestF(s.openList, 1, 2)
             currentNode == s.openList[cur]
         IN  IF currentNode.x = s.target[1] /\ currentNode.y = s.target[2]
             THEN [s EXCEPT !.iterations = @ + 1,
                            !.returned = TRUE,
                            !.path = BuildPath(s.closedList, currentNode, <<>>)]
             ELSE LET closedList == Append(s.closedList, currentNode)
                      neighbors == getNeighbors(s.mover, currentNode, s.allowThrough)
                  IN  [s EXCEPT !.iterations = @ + 1,
                                !.closedList = closedList,
                                !.openList = ProcessNeighbors(RemoveAt(s.openList, cur), closedList,
                                                              currentNode, neighbors, s.target, 1)]

RECURSIVE SearchRun(_)
\* The loop: iterations until findPath returns.  The one-element set holds the
\* state after the iteration, so that it is computed once.
SearchRun(s) ==
    IF s.returned THEN s
    ELSE CHOOSE r \in {SearchRun(next) : next \in {SearchIterate(s)}} : TRUE

findPath(c, targetX, targetY, allowThrough) ==
    SearchRun(SearchStart(c, targetX, targetY, allowThrough)).path

---------------------------------------------------------------------------
(* findClosestAccessiblePoint *)

maxRadius == 5

\* Mutant: every position counts as accessible.
Accessible_Any(c, x, y) == TRUE

\* Lines 458-459: findPath finds a path to the position.
Accessible(c, x, y) == Len(findPath(c, x, y, FALSE)) > 0

\* Lines 445-468: the inner loop, over dy, for one dx; best is [closestPoint,
\* closestDistance], closestDistance read only once a point is held.
RECURSIVE ScanColumn(_, _, _, _, _, _, _)
ScanColumn(c, targetX, targetY, radius, dx, dy, best) ==
    IF dy > radius THEN best
    ELSE LET x == targetX + dx
             y == targetY + dy
             distance == Abs(x - targetX) + Abs(y - targetY)
             found ==
                 /\ Abs(dx) + Abs(dy) = radius
                 /\ x >= 0 /\ x < width /\ y >= 0 /\ y < height
                 /\ Accessible(c, x, y)
                 /\ (best.closestPoint = NULL \/ distance < best.closestDistance)
         IN  CHOOSE r \in {ScanColumn(c, targetX, targetY, radius, dx, dy + 1, next) :
                               next \in {IF found
                                          THEN [closestPoint |-> <<x, y>>, closestDistance |-> distance]
                                          ELSE best}} : TRUE

\* Lines 444-469: the scan of one ring, in the order of the two loops.
RECURSIVE ScanRing(_, _, _, _, _, _, _)
ScanRing(c, targetX, targetY, radius, dx, dy, best) ==
    IF dx > radius THEN best
    ELSE CHOOSE r \in {ScanRing(c, targetX, targetY, radius, dx + 1, -radius, next) :
                          next \in {ScanColumn(c, targetX, targetY, radius, dx, dy, best)}} : TRUE

RECURSIVE ScanRadius(_, _, _, _)
ScanRadius(c, targetX, targetY, radius) ==
    IF radius > maxRadius THEN NULL
    ELSE LET best == ScanRing(c, targetX, targetY, radius, -radius, -radius,
                              [closestPoint |-> NULL, closestDistance |-> 0])
         IN  IF best.closestPoint # NULL THEN best.closestPoint
             ELSE ScanRadius(c, targetX, targetY, radius + 1)

\* Mutant: the target itself is taken for the closest accessible point.
findClosestAccessiblePoint_Target(c, targetX, targetY) == <<targetX, targetY>>

findClosestAccessiblePoint(c, targetX, targetY) == ScanRadius(c, targetX, targetY, 0)

\* Lines 438-440: the state of findClosestAccessiblePoint before the loops.
ScanStart(c, targetX, targetY) ==
    [ mover |-> c, target |-> <<targetX, targetY>>, radius |-> 0,
      closestPoint |-> NULL, returned |-> FALSE ]

\* Lines 443-475: one evaluation of the radius loop's condition and, if it
\* holds, the scan of that ring.
ScanIterate(s) ==
    IF s.radius > maxRadius THEN [s EXCEPT !.returned = TRUE, !.closestPoint = NULL]
    ELSE LET best == ScanRing(s.mover, s.target[1], s.target[2], s.radius, -s.radius, -s.radius,
                              [closestPoint |-> NULL, closestDistance |-> 0])
         IN  IF best.closestPoint # NULL
             THEN [s EXCEPT !.returned = TRUE, !.closestPoint = best.closestPoint]
             ELSE [s EXCEPT !.radius = @ + 1]

---------------------------------------------------------------------------
(* The session: startPathfinding and updatePathfinding *)

\* A path reference that is null or undefined (an empty array is <<>>).
NoPath == <<NULL>>

\* Game_CharacterBase.isMoving: the step's animation has frames left.
isMoving(ch) == ch.moving > 0

\* Game_CharacterBase.moveStraight: the step is taken at once, its animation follows.
moveStraight(c, ch, d) ==
    IF canPassAs(c, ch.through, ch.x, ch.y, d)
    THEN [ch EXCEPT !.x = roundXWithDirection(ch.x, d),
                    !.y = roundYWithDirection(ch.y, d),
                    !.moving = StepFrames]
    ELSE ch

\* Game_Character.findDirectionTo for a goal next to the character: the direction
\* of the goal (0 on the goal itself).
findDirectionTo(ch, goalX, goalY) ==
    LET deltaX == ch.x - goalX
        deltaY == ch.y - goalY
    IN  IF deltaX = 0 /\ deltaY = 0 THEN 0
        ELSE IF Abs(deltaX) > Abs(deltaY) THEN (IF deltaX > 0 THEN 4 ELSE 6)
        ELSE IF deltaY > 0 THEN 8 ELSE 2

\* Mutant: no closest accessible point is looked for.
startPathfinding_NoFallback(c, targetX, targetY, recalculateIfBlocked) ==
    [chars[c] EXCEPT !.pathfindingTarget = <<targetX, targetY>>,
                     !.pathfindingPath = findPath(c, targetX, targetY, FALSE),
                     !.pathfindingIndex = 0,
                     !.recalculateIfBlocked = recalculateIfBlocked,
                     !.pathfindingStuckCount = 0,
                     !.originalThrough = chars[c].through,
                     !.forcingThrough = FALSE]

\* Lines 190-206.
startPathfinding(c, targetX, targetY, recalculateIfBlocked) ==
    LET ch == chars[c]
        first == findPath(c, targetX, targetY, FALSE)
        closestPoint ==
            IF Len(first) = 0 THEN findClosestAccessiblePoint(c, targetX, targetY) ELSE NULL
        path ==
            IF Len(first) = 0 /\ closestPoint # NULL
            THEN findPath(c, closestPoint[1], closestPoint[2], FALSE)
            ELSE first
    IN  [ch EXCEPT !.pathfindingTarget = <<targetX, targetY>>,
                   !.pathfindingPath = path,
                   !.pathfindingIndex = 0,
                   !.recalculateIfBlocked = recalculateIfBlocked,
                   !.pathfindingStuckCount = 0,
                   !.originalThrough = ch.through,
                   !.forcingThrough = FALSE]

\* Mutant: the target is kept when the session ends.
EndSession_KeepTarget(ch) ==
    [ch EXCEPT !.pathfindingPath = NoPath,
               !.through = ch.originalThrough,
               !.forcingThrough = FALSE]

\* Lines 213-219: the session ends.
EndSession(ch) ==
    [ch EXCEPT !.pathfindingPath = NoPath,
               !.pathfindingTarget = NULL,
               !.through = ch.originalThrough,
               !.forcingThrough = FALSE]

\* Mutant: the forced step's passability is not restored.
AdvanceIndex_NoRestore(ch) ==
    [ch EXCEPT !.pathfindingIndex = @ + 1,
               !.pathfindingStuckCount = 0,
               !.forcingThrough = FALSE]

\* Mutant: the cursor skips a node.
AdvanceIndex_ByTwo(ch) ==
    [ch EXCEPT !.pathfindingIndex = @ + 2,
               !.pathfindingStuckCount = 0,
               !.through = IF ch.forcingThrough THEN ch.originalThrough ELSE @,
               !.forcingThrough = FALSE]

\* Lines 224-231: the character stands on the next node.
AdvanceIndex(ch) ==
    [ch EXCEPT !.pathfindingIndex = @ + 1,
               !.pathfindingStuckCount = 0,
               !.through = IF ch.forcingThrough THEN ch.originalThrough ELSE @,
               !.forcingThrough = FALSE]

\* Mutant: the new search starts one blocked frame early.
ShouldRecalculate_Early(ch) ==
    ch.pathfindingStuckCount >= 2 /\ ch.recalculateIfBlocked

\* Line 254-257: the condition under which a blocked step leads to a new search.
ShouldRecalculate(ch) ==
    ch.pathfindingStuckCount >= 3 /\ ch.recalculateIfBlocked

\* Mutant: the cursor is not reset for the new path.
AdoptPath_KeepIndex(ch, newPath) ==
    [ch EXCEPT !.pathfindingPath = newPath,
               !.pathfindingStuckCount = 0,
               !.through = ch.originalThrough,
               !.forcingThrough = FALSE]

\* Lines 265-271: the new path is adopted.
AdoptPath(ch, newPath) ==
    [ch EXCEPT !.pathfindingPath = newPath,
               !.pathfindingIndex = 0,
               !.pathfindingStuckCount = 0,
               !.through = ch.originalThrough,
               !.forcingThrough = FALSE]

\* Mutant: a hard-blocked step is not forced.
ForceThrough_Skip(c, ch, direction) == ch

\* Mutant: the forced step does not reset the stuck count.
ForceThrough_KeepStuck(c, ch, direction) ==
    moveStraight(c, [ch EXCEPT !.forcingThrough = TRUE, !.through = TRUE], direction)

\* Lines 272-278: the step is forced through.
ForceThrough(c, ch, direction) ==
    [moveStraight(c, [ch EXCEPT !.forcingThrough = TRUE, !.through = TRUE], direction)
        EXCEPT !.pathfindingStuckCount = 0]

\* Mutant: the new search heads for the first node of the path, not the target.
Blocked_TowardFirstNode(c, ch, direction) ==
    IF ShouldRecalculate(ch)
    THEN LET newPath == findPath(c, ch.pathfindingPath[1][1], ch.pathfindingPath[1][2], FALSE)
         IN  IF Len(newPath) > 0 THEN AdoptPath(ch, newPath)
             ELSE IF THROUGH_IF_HARD_BLOCKED THEN ForceThrough(c, ch, direction)
             ELSE ch
    ELSE ch

\* Lines 253-279: the step is blocked; ch already holds the incremented stuck count.
Blocked(c, ch, direction) ==
    IF ShouldRecalculate(ch)
    THEN LET newPath == findPath(c, ch.pathfindingTarget[1], ch.pathfindingTarget[2], FALSE)
         IN  IF Len(newPath) > 0 THEN AdoptPath(ch, newPath)
             ELSE IF THROUGH_IF_HARD_BLOCKED THEN ForceThrough(c, ch, direction)
             ELSE ch
    ELSE ch

\* Mutant: the frame does not wait for the step in animation (line 221).
updatePathfinding_NoWait(c, ch) ==
    IF ch.pathfindingTarget = NULL THEN ch
    ELSE IF ch.pathfindingPath = NoPath \/ ch.pathfindingIndex >= Len(ch.pathfindingPath)
    THEN EndSession(ch)
    ELSE LET nextNode == ch.pathfindingPath[ch.pathfindingIndex + 1]
         IN  IF ch.x = nextNode[1] /\ ch.y = nextNode[2] THEN AdvanceIndex(ch)
             ELSE LET direction == findDirectionTo(ch, nextNode[1], nextNode[2])
                  IN  IF direction > 0
                      THEN IF canPass(c, ch.x, ch.y, direction)
                           THEN [moveStraight(c, ch, direction) EXCEPT !.pathfindingStuckCount = 0]
                           ELSE Blocked(c, [ch EXCEPT !.pathfindingStuckCount = @ + 1], direction)
                      ELSE ch

\* Mutant: the check of line 210 for a session is left out.
updatePathfinding_NoTargetCheck(c, ch) ==
    IF ch.pathfindingPath = NoPath \/ ch.pathfindingIndex >= Len(ch.pathfindingPath)
    THEN EndSession(ch)
    ELSE ch

\* Lines 209-284; ch is the character as the engine's own update left it.
updatePathfinding(c, ch) ==
    IF ch.pathfindingTarget = NULL THEN ch
    ELSE IF ch.pathfindingPath = NoPath \/ ch.pathfindingIndex >= Len(ch.pathfindingPath)
    THEN EndSession(ch)
    ELSE IF isMoving(ch) THEN ch
    ELSE LET nextNode == ch.pathfindingPath[ch.pathfindingIndex + 1]
         IN  IF ch.x = nextNode[1] /\ ch.y = nextNode[2] THEN AdvanceIndex(ch)
             ELSE LET direction == findDirectionTo(ch, nextNode[1], nextNode[2])
                  IN  IF direction > 0
                      THEN IF canPass(c, ch.x, ch.y, direction)
                           THEN [moveStraight(c, ch, direction) EXCEPT !.pathfindingStuckCount = 0]
                           ELSE Blocked(c, [ch EXCEPT !.pathfindingStuckCount = @ + 1], direction)
                      ELSE ch

\* Game_CharacterBase.update (called at lines 483 and 489): the animation of a
\* step in progress advances by one frame.
engineUpdate(ch) == [ch EXCEPT !.moving = IF @ > 0 THEN @ - 1 ELSE 0]

---------------------------------------------------------------------------
(* The state machine *)

WallFlags(ws) == {<<cell[1], cell[2], d>> : cell \in ws, d \in Dirs}

\* The maps of the sessions: up to MaxWalls fully impassable tiles.
WallChoices == {WallFlags(ws) : ws \in {s \in SUBSET Cells : Cardinality(s) <= MaxWalls}}

\* One tile closed on one inner side only.
OneWayChoices ==
    {{<<p[1][1], p[1][2], p[2]>>} : p \in
        {q \in Cells \X Dirs : isValid(roundXWithDirection(q[1][1], q[2]),
                                       roundYWithDirection(q[1][2], q[2]))}}

\* A character before any startPathfinding: the session fields are undefined
\* (falsy), and are not read until startPathfinding has set them.  normalThrough
\* is the character's own Through setting, from which the engine sets _through.
NewCharacter(cell, through) ==
    [ x |-> cell[1], y |-> cell[2], through |-> through, normalThrough |-> through,
      moving |-> 0,
      pathfindingTarget |-> NULL,
      pathfindingPath |-> NoPath,
      pathfindingIndex |-> 0,
      recalculateIfBlocked |-> FALSE,
      pathfindingStuckCount |-> 0,
      originalThrough |-> FALSE,
      forcingThrough |-> FALSE ]

NoSearch ==
    [ mover |-> Mover, target |-> <<0, 0>>, allowThrough |-> FALSE, iterations |-> 0,
      openList |-> <<>>, closedList |-> <<>>, returned |-> TRUE, path |-> <<>> ]

NoScan ==
    [ mover |-> Mover, target |-> <<0, 0>>, radius |-> 0, closestPoint |-> NULL, returned |-> TRUE ]

MaxIterationChoices == {SmallCap, width * height + 1}

\* The event ids MoveTo is given: OtherEventId is the other event's, BadEventId
\* is no event's, and 0 is what the interpreter of a common event reports.
OtherEventId == 1

BadEventId == 2

NoCharacter == 0

\* $gameMap.event(id): the event, or undefined.
gameMapEvent(id) == IF id = OtherEventId THEN Other ELSE NoCharacter

\* $gamePlayer.
gamePlayer == Mover

\* Lines 151-163: the character that will move (NoCharacter for undefined).
ResolveSubject(args) ==
    IF args.subject = "thisEvent" THEN gameMapEvent(args.interpreterEventId)
    ELSE IF args.subject = "player" THEN gamePlayer
    ELSE IF args.subject = "event" THEN gameMapEvent(args.subjectEventId)
    ELSE NoCharacter

\* Line 172-173 reads x and y of undefined: a TypeError.
TargetThrows(args) ==
    args.targetType = "event" /\ gameMapEvent(args.targetEventId) = NoCharacter

\* Lines 165-175: the target position, where line 173 does not throw.
ResolveTarget(args) ==
    IF args.targetType = "coordinates" THEN <<args.targetX, args.targetY>>
    ELSE <<chars[gameMapEvent(args.targetEventId)].x, chars[gameMapEvent(args.targetEventId)].y>>

\* The arguments of the MoveTo commands of the model: each way of naming the
\* subject with each way of naming the target, the coordinates from one cell
\* outside the map on each side.
SubjectChoices ==
    { [subject |-> "player", subjectEventId |-> 0, interpreterEventId |-> OtherEventId],
      [subject |-> "event", subjectEventId |-> OtherEventId, interpreterEventId |-> 0],
      [subject |-> "event", subjectEventId |-> BadEventId, interpreterEventId |-> OtherEventId],
      [subject |-> "thisEvent", subjectEventId |-> 0, interpreterEventId |-> OtherEventId],
      [subject |-> "thisEvent", subjectEventId |-> OtherEventId, interpreterEventId |-> 0] }

TargetChoices ==
    { [targetType |-> "coordinates", targetX |-> x, targetY |-> y, targetEventId |-> 0] :
          x \in (-1)..width, y \in (-1)..height }
    \cup { [targetType |-> "event", targetX |-> 0, targetY |-> 0, targetEventId |-> id] :
               id \in {OtherEventId, BadEventId} }

NoMoveTo ==
    [ called |-> FALSE, subject |-> "player", subjectEventId |-> 0, interpreterEventId |-> 0,
      targetType |-> "coordinates", targetX |-> 0, targetY |-> 0, targetEventId |-> 0,
      recalculateIfBlocked |-> FALSE, started |-> FALSE, raised |-> "none" ]

\* No MoveTo command has been run, and the toast plugin is as loaded: nothing is
\* queued, no window has been made.
NoToast ==
    /\ MAX_TOASTS = 1
    /\ DISPLAY_TIME = MinDisplayTime
    /\ toastQueue = <<>>
    /\ isProcessingQueue = FALSE
    /\ timeouts = 0
    /\ sceneWindows = <<>>
    /\ activeToasts = <<>>
    /\ calls = 0

NoCommandNoToast ==
    /\ moveTo = NoMoveTo
    /\ NoToast

\* The characters as the map is entered.
InitChars ==
    \E mc \in Cells, oc \in Cells, th \in BOOLEAN :
        /\ mc # oc
        /\ chars = [c \in CharIds |->
                         IF c = Mover THEN NewCharacter(mc, th) ELSE NewCharacter(oc, FALSE)]

Init ==
    /\ width = MapWidth
    /\ height = MapHeight
    /\ blocked \in WallChoices
    /\ MAX_ITERATIONS \in MaxIterationChoices
    /\ THROUGH_IF_HARD_BLOCKED \in BOOLEAN
    /\ InitChars
    /\ search = NoSearch
    /\ scan = NoScan
    /\ NoCommandNoToast
    /\ external = 0

\* What no step of a session changes.
Static ==
    UNCHANGED <<width, height, blocked, MAX_ITERATIONS, THROUGH_IF_HARD_BLOCKED, search, scan, moveTo, toastVars>>

\* A MoveTo command (lines 142-180) reaching startPathfinding for character c.
StartPathfinding(c, recalculateChoices) ==
    \E target \in Cells, recalculateIfBlocked \in recalculateChoices :
        /\ chars' = [chars EXCEPT ![c] = startPathfinding(c, target[1], target[2], recalculateIfBlocked)]
        /\ Static

\* Lines 481-491: one frame of character c: the engine's update, then updatePathfinding.
Update(c) ==
    /\ chars[c].pathfindingStuckCount < MaxStuck
    /\ chars' = [chars EXCEPT ![c] = updatePathfinding(c, engineUpdate(chars[c]))]
    /\ Static
    /\ UNCHANGED external

\* The other event moves (its own move route, or a script): to any cell the
\* mover does not hold.
EventMoves(o) ==
    \E cell \in Cells :
        /\ cell # <<chars[Mover].x, chars[Mover].y>>
        /\ cell # <<chars[o].x, chars[o].y>>
        /\ chars' = [chars EXCEPT ![o].x = cell[1], ![o].y = cell[2]]
        /\ Static

Command == StartPathfinding(Mover, BOOLEAN) /\ UNCHANGED external

World == EventMoves(Other) /\ UNCHANGED external

Next ==
    \/ Command
    \/ Update(Mover)
    \/ World

Spec == Init /\ [][Next]_vars

---------------------------------------------------------------------------
(* One MoveTo command (MaxMoveTo) with any arguments, and both characters
   updated every frame in any order *)

\* Lines 142-180.
MoveTo(s, t, recalculateIfBlocked) ==
    LET args == [ subject |-> s.subject, subjectEventId |-> s.subjectEventId,
                  interpreterEventId |-> s.interpreterEventId,
                  targetType |-> t.targetType, targetX |-> t.targetX, targetY |-> t.targetY,
                  targetEventId |-> t.targetEventId,
                  recalculateIfBlocked |-> recalculateIfBlocked ]
        character == ResolveSubject(args)
        done(started, exception) ==
            [ called |-> TRUE, subject |-> args.subject, subjectEventId |-> args.subjectEventId,
              interpreterEventId |-> args.interpreterEventId,
              targetType |-> args.targetType, targetX |-> args.targetX, targetY |-> args.targetY,
              targetEventId |-> args.targetEventId,
              recalculateIfBlocked |-> recalculateIfBlocked,
              started |-> started, raised |-> exception ]
    IN  IF TargetThrows(args)
        THEN /\ moveTo' = done(FALSE, "TypeError")
             /\ UNCHANGED chars
        ELSE IF character # NoCharacter
        THEN LET target == ResolveTarget(args)
             IN  /\ chars' = [chars EXCEPT ![character] =
                                  startPathfinding(character, target[1], target[2], recalculateIfBlocked)]
                 /\ moveTo' = done(TRUE, "none")
        ELSE /\ moveTo' = done(FALSE, "none")
             /\ UNCHANGED chars

MoveToCommand ==
    /\ external < MaxMoveTo
    /\ external' = external + 1
    /\ \E s \in SubjectChoices, t \in TargetChoices, recalculateIfBlocked \in BOOLEAN :
           MoveTo(s, t, recalculateIfBlocked)
    /\ UNCHANGED <<width, height, blocked, MAX_ITERATIONS, THROUGH_IF_HARD_BLOCKED, search, scan, toastVars>>

NextCommand ==
    \/ MoveToCommand
    \/ Update(Mover)
    \/ Update(Other)

SpecCommand == Init /\ [][NextCommand]_vars

---------------------------------------------------------------------------
(* Both characters as agents: up to MaxAgentCommands commands to either, no
   other movement, and the host updating them frame by frame in any order *)

AgentCommand ==
    /\ external < MaxAgentCommands
    /\ external' = external + 1
    /\ \E c \in CharIds : StartPathfinding(c, BOOLEAN)

NextAgents ==
    \/ AgentCommand
    \/ Update(Mover)
    \/ Update(Other)

SpecAgents == Init /\ [][NextAgents]_vars

---------------------------------------------------------------------------
(* The sessions in a world that comes to rest: at most MaxExternal commands and
   moves of the other event, ThroughIfHardBlocked enabled, every command with
   recalculateIfBlocked = true, and the host calling update every frame *)

InitLive ==
    /\ Init
    /\ THROUGH_IF_HARD_BLOCKED

LiveCommand ==
    /\ external < MaxExternal
    /\ external' = external + 1
    /\ StartPathfinding(Mover, {TRUE})

LiveWorld ==
    /\ external < MaxExternal
    /\ external' = external + 1
    /\ EventMoves(Other)

NextLive ==
    \/ LiveCommand
    \/ Update(Mover)
    \/ LiveWorld

SpecLive == InitLive /\ [][NextLive]_vars /\ WF_vars(Update(Mover))

---------------------------------------------------------------------------
(* One MoveTo command in a world at rest: a corridor or the map of the
   sessions, the other event standing still, update called every frame *)

InitFallback ==
    /\ \E dims \in {<<CorridorLength, 1>>, <<MapWidth, MapHeight>>} :
          width = dims[1] /\ height = dims[2]
    /\ blocked \in WallChoices
    /\ MAX_ITERATIONS \in MaxIterationChoices
    /\ THROUGH_IF_HARD_BLOCKED = TRUE
    /\ InitChars
    /\ search = NoSearch
    /\ scan = NoScan
    /\ NoCommandNoToast
    /\ external = 0

FallbackCommand ==
    /\ external < MaxCommands
    /\ external' = external + 1
    /\ StartPathfinding(Mover, BOOLEAN)

NextFallback ==
    \/ FallbackCommand
    \/ Update(Mover)

SpecFallback == InitFallback /\ [][NextFallback]_vars /\ WF_vars(Update(Mover))

---------------------------------------------------------------------------
(* The sessions in a world that comes to rest, on the 2x2 maps and on a corridor
   of LongCorridor cells whose tile WallAt is a wall, the mover at its near end
   and the other event at its far end: there a command can find no cell at all *)

InitInterrupt ==
    \/ InitLive
    \/ /\ width = LongCorridor
       /\ height = 1
       /\ blocked = WallFlags({<<WallAt, 0>>})
       /\ MAX_ITERATIONS = width * height + 1
       /\ THROUGH_IF_HARD_BLOCKED = TRUE
       /\ chars = [c \in CharIds |->
                       IF c = Mover THEN NewCharacter(<<0, 0>>, FALSE)
                       ELSE NewCharacter(<<LongCorridor - 1, 0>>, FALSE)]
       /\ search = NoSearch
       /\ scan = NoScan
       /\ NoCommandNoToast
       /\ external = 0

SpecInterrupt == InitInterrupt /\ [][NextLive]_vars

---------------------------------------------------------------------------
(* Reishandy_Toast.js: the toast windows and the message queue.  A window is a
   record of the fields that decide whether it shows: its position, width and
   frame opacity are left out *)

OpacityStep == 16

FullOpacity == 255

Min(a, b) == IF a < b THEN a ELSE b

Max(a, b) == IF a > b THEN a ELSE b

\* Lines 189-196: a new Window_Toast, hidden.
Window_Toast == [ text |-> 0, count |-> 0, contentsOpacity |-> 0, visible |-> FALSE ]

\* Mutant: the window is hidden as soon as it starts to fade.
startFadeOut_HideAtOnce(w) ==
    [w EXCEPT !.contentsOpacity = 0, !.visible = FALSE]

\* Lines 236-242.
startFadeOut(w) ==
    LET contentsOpacity == Max(w.contentsOpacity - OpacityStep, 0)
    IN  [w EXCEPT !.contentsOpacity = contentsOpacity,
                  !.visible = IF contentsOpacity = 0 THEN FALSE ELSE @]

\* Lines 198-214: Window_Toast.prototype.update.
updateToast(w) ==
    IF w.count > 0
    THEN LET shown == [w EXCEPT !.count = @ - 1,
                                !.contentsOpacity = Min(@ + OpacityStep, FullOpacity)]
         IN  IF shown.count = 0 THEN startFadeOut(shown) ELSE shown
    ELSE IF w.contentsOpacity > 0 THEN startFadeOut(w)
    ELSE w

\* Lines 244-304: the text is laid out, the display time set, the window shown.
showMessage(w, text) ==
    [w EXCEPT !.text = text, !.count = DISPLAY_TIME, !.visible = TRUE]

\* The state of the plugin and of the scene's toasts, as one record.
ToastState ==
    [ toastQueue |-> toastQueue, isProcessingQueue |-> isProcessingQueue, timeouts |-> timeouts,
      sceneWindows |-> sceneWindows, activeToasts |-> activeToasts ]

\* Line 318: the toasts still to be counted.
StillShown(windows, i) == windows[i].visible /\ windows[i].contentsOpacity > 0

\* Mutant: a message is taken also while one is being processed.
processToastQueue_NoGuard(st) ==
    IF st.toastQueue = <<>> THEN st
    ELSE [st EXCEPT !.toastQueue = Tail(@),
                    !.isProcessingQueue = TRUE,
                    !.sceneWindows = Append(@, showMessage(Window_Toast, Head(st.toastQueue))),
                    !.activeToasts = <<Len(st.sceneWindows) + 1>> \o @,
                    !.timeouts = @ + 1]

\* Lines 306-345.
processToastQueue(st) ==
    IF st.isProcessingQueue \/ st.toastQueue = <<>> THEN st
    ELSE LET message == Head(st.toastQueue)
             filtered == SelectSeq(st.activeToasts, LAMBDA i : StillShown(st.sceneWindows, i))
             full == Len(filtered) >= MAX_TOASTS
             oldestToast == filtered[Len(filtered)]
             kept == IF full THEN SubSeq(filtered, 1, Len(filtered) - 1) ELSE filtered
             windows == IF full /\ Len(filtered) > 0
                        THEN [st.sceneWindows EXCEPT ![oldestToast].count = 0]
                        ELSE st.sceneWindows
             toast == showMessage(Window_Toast, message)
         IN  [ toastQueue |-> Tail(st.toastQueue),
               isProcessingQueue |-> TRUE,
               timeouts |-> st.timeouts + 1,
               sceneWindows |-> Append(windows, toast),
               activeToasts |-> <<Len(windows) + 1>> \o kept ]

\* Lines 347-350.
showToast(st, message) ==
    processToastQueue([st EXCEPT !.toastQueue = Append(@, message)])

\* Lines 341-344: the callback of the 500 ms timer.
timeoutCallback(st) ==
    processToastQueue([st EXCEPT !.isProcessingQueue = FALSE, !.timeouts = @ - 1])

SetToastState(st) ==
    /\ toastQueue' = st.toastQueue
    /\ isProcessingQueue' = st.isProcessingQueue
    /\ timeouts' = st.timeouts
    /\ sceneWindows' = st.sceneWindows
    /\ activeToasts' = st.activeToasts

\* The plugin command ShowToast or $gameSystem.showToast (lines 173-176, 356-358).
ShowToast ==
    /\ calls < MaxMessages
    /\ calls' = calls + 1
    /\ SetToastState(showToast(ToastState, calls + 1))
    /\ UNCHANGED <<pathVars, MAX_TOASTS, DISPLAY_TIME>>

\* A timer set at line 341 fires.
TimerFires ==
    /\ timeouts > 0
    /\ SetToastState(timeoutCallback(ToastState))
    /\ UNCHANGED <<pathVars, MAX_TOASTS, DISPLAY_TIME, calls>>

\* One frame of the scene: every window of its window layer is updated.
FrameUpdate ==
    /\ sceneWindows' = [i \in 1..Len(sceneWindows) |-> updateToast(sceneWindows[i])]
    /\ UNCHANGED <<pathVars, MAX_TOASTS, DISPLAY_TIME, toastQueue, isProcessingQueue, timeouts,
                   activeToasts, calls>>

InitToast ==
    /\ width = MapWidth
    /\ height = MapHeight
    /\ blocked = {}
    /\ MAX_ITERATIONS = width * height + 1
    /\ THROUGH_IF_HARD_BLOCKED = FALSE
    /\ chars = [c \in CharIds |-> NewCharacter(<<c - 1, 0>>, FALSE)]
    /\ search = NoSearch
    /\ scan = NoScan
    /\ external = 0
    /\ moveTo = NoMoveTo
    /\ MAX_TOASTS \in 1..MaxMaxToasts
    /\ DISPLAY_TIME \in {MinDisplayTime, LongerDisplayTime}
    /\ toastQueue = <<>>
    /\ isProcessingQueue = FALSE
    /\ timeouts = 0
    /\ sceneWindows = <<>>
    /\ activeToasts = <<>>
    /\ calls = 0

NextToast ==
    \/ ShowToast
    \/ TimerFires
    \/ FrameUpdate

SpecToast == InitToast /\ [][NextToast]_vars /\ WF_vars(TimerFires)

---------------------------------------------------------------------------
(* findPath on its own: a call with any arguments, run one iteration per step *)

InitSearch ==
    /\ width = SearchMapWidth
    /\ height = SearchMapHeight
    /\ blocked \in WallChoices \cup OneWayChoices
    /\ MAX_ITERATIONS \in MaxIterationChoices
    /\ THROUGH_IF_HARD_BLOCKED = TRUE
    /\ InitChars
    /\ \E target \in Cells, allowThrough \in BOOLEAN :
          search = SearchStart(Mover, target[1], target[2], allowThrough)
    /\ scan = NoScan
    /\ NoCommandNoToast
    /\ external = 0

SearchStep ==
    /\ ~search.returned
    /\ search' = SearchIterate(search)
    /\ UNCHANGED <<width, height, blocked, chars, MAX_ITERATIONS, THROUGH_IF_HARD_BLOCKED, scan, external>>
    /\ UNCHANGED <<moveTo, toastVars>>

SpecSearch == InitSearch /\ [][SearchStep]_vars

---------------------------------------------------------------------------
(* findPath on a map without obstacles: no impassable tile, the other event
   set to Through; any start, goal and MaxIteration on a small map, and the
   10x10 map from (0,0) to (5,7) with MaxIteration = 500 *)

OpenChars(mc, oc, th) ==
    chars = [c \in CharIds |->
                IF c = Mover THEN NewCharacter(mc, th) ELSE NewCharacter(oc, TRUE)]

InitOpen ==
    /\ blocked = {}
    /\ THROUGH_IF_HARD_BLOCKED = TRUE
    /\ scan = NoScan
    /\ NoCommandNoToast
    /\ external = 0
    /\ \/ /\ width = OpenWidth
          /\ height = OpenHeight
          /\ MAX_ITERATIONS \in 1..(OpenWidth + OpenHeight)
          /\ \E mc \in Cells, oc \in Cells, th \in BOOLEAN : mc # oc /\ OpenChars(mc, oc, th)
          /\ \E target \in Cells, allowThrough \in BOOLEAN :
                search = SearchStart(Mover, target[1], target[2], allowThrough)
       \/ /\ width = ScenarioSize
          /\ height = ScenarioSize
          /\ MAX_ITERATIONS = ScenarioCap
          /\ OpenChars(<<0, 0>>, <<ScenarioSize - 1, ScenarioSize - 1>>, FALSE)
          /\ search = SearchStart(Mover, ScenarioGoalX, ScenarioGoalY, FALSE)

SpecOpen == InitOpen /\ [][SearchStep]_vars

---------------------------------------------------------------------------
(* findClosestAccessiblePoint on its own: a call with any target, in a corridor
   or on the map of the sessions, run one ring per step *)

InitClosest ==
    /\ \E dims \in {<<CorridorLength, 1>>, <<MapWidth + 1, MapHeight>>} :
          width = dims[1] /\ height = dims[2]
    /\ blocked \in WallChoices \cup OneWayChoices
    /\ MAX_ITERATIONS \in MaxIterationChoices
    /\ THROUGH_IF_HARD_BLOCKED = TRUE
    /\ InitChars
    /\ search = NoSearch
    /\ \E target \in Cells : scan = ScanStart(Mover, target[1], target[2])
    /\ NoCommandNoToast
    /\ external = 0

ScanStep ==
    /\ ~scan.returned
    /\ scan' = ScanIterate(scan)
    /\ UNCHANGED <<width, height, blocked, chars, MAX_ITERATIONS, THROUGH_IF_HARD_BLOCKED, search, external>>
    /\ UNCHANGED <<moveTo, toastVars>>

SpecClosest == InitClosest /\ [][ScanStep]_vars

---------------------------------------------------------------------------
(* Reference definitions for the claims about findPath *)

CellAt(cell, d) == <<roundXWithDirection(cell[1], d), roundYWithDirection(cell[2], d)>>

\* The rule of line 422 for the edge leaving cell in direction d, with the
\* bounds check of lines 405-410.
PassableEdge(c, cell, d, allowThrough) ==
    /\ CellAt(cell, d) \in Cells
    /\ isPassable(cell[1], cell[2], d)
    /\ (canPass(c, cell[1], cell[2], d) \/ allowThrough)

EdgeTargets(c, cell, allowThrough) ==
    {CellAt(cell, d) : d \in {e \in Dirs : PassableEdge(c, cell, e, allowThrough)}}

\* Exhaustive breadth-first search: the least number of passable edges from
\* the frontier (n steps from the start) to goal, -1 when there is no route.
RECURSIVE BfsSteps(_, _, _, _, _, _)
BfsSteps(c, frontier, seen, goal, allowThrough, n) ==
    IF goal \in frontier THEN n
    ELSE LET next == UNION {EdgeTargets(c, cell, allowThrough) : cell \in frontier} \ seen
         IN  IF next = {} THEN -1
             ELSE BfsSteps(c, next, seen \cup next, goal, allowThrough, n + 1)

ShortestSteps(c, from, goal, allowThrough) ==
    BfsSteps(c, {from}, {from}, goal, allowThrough, 0)

Manhattan(a, b) == Abs(a[1] - b[1]) + Abs(a[2] - b[2])

SearchFrom == <<chars[search.mover].x, chars[search.mover].y>>

\* The direction of the step from cell a to the 4-adjacent cell b, 0 if none.
StepDir(a, b) ==
    IF \E d \in Dirs : CellAt(a, d) = b THEN CHOOSE d \in Dirs : CellAt(a, d) = b ELSE 0

---------------------------------------------------------------------------
(* C1 *)

\* C1: whenever findPath returns a non-empty path, its number of steps is the
\* shortest step count an exhaustive breadth-first search finds over the same
\* passable edges.
C1_ShortestPath ==
    (search.returned /\ search.path # <<>>) =>
        Len(search.path) - 1 =
            ShortestSteps(search.mover, SearchFrom, search.target, search.allowThrough)

\* A returned path that has to go around something: longer than the Manhattan distance.
C1_Witness ==
    /\ search.returned
    /\ Len(search.path) - 1 > Manhattan(SearchFrom, search.target)

---------------------------------------------------------------------------
(* C2 *)

\* C2: a returned non-empty path starts on the mover's cell, ends on the goal,
\* steps between 4-adjacent in-bounds cells over edges that satisfy the
\* candidate rule, and holds no cell twice.
C2_ValidWalk ==
    (search.returned /\ search.path # <<>>) =>
        LET path == search.path
        IN  /\ path[1] = SearchFrom
            /\ path[Len(path)] = search.target
            /\ \A i \in 1..Len(path) : path[i] \in Cells
            /\ \A i \in 1..(Len(path) - 1) :
                  /\ Manhattan(path[i], path[i + 1]) = 1
                  /\ isPassable(path[i][1], path[i][2], StepDir(path[i], path[i + 1]))
                  /\ \/ canPass(search.mover, path[i][1], path[i][2], StepDir(path[i], path[i + 1]))
                     \/ search.allowThrough
            /\ \A i, j \in 1..Len(path) : path[i] = path[j] => i = j

\* A returned path of at least three steps that crosses the other event's cell.
C2_Witness ==
    /\ search.returned
    /\ Len(search.path) >= 4
    /\ \E i \in 2..(Len(search.path) - 1) :
          search.path[i] = <<chars[Other].x, chars[Other].y>>

---------------------------------------------------------------------------
(* C3 *)

\* C3: findPath never runs more than MAX_ITERATIONS loop iterations; it
\* terminates, since every step of a call that has not returned either returns
\* or uses up one of those iterations; and it returns the empty path when no
\* route leads to the goal.
C3_Bounded ==
    /\ search.iterations <= MAX_ITERATIONS
    /\ ~search.returned =>
          \/ SearchIterate(search).returned
          \/ SearchIterate(search).iterations = search.iterations + 1
    /\ (search.returned /\ ShortestSteps(search.mover, SearchFrom, search.target,
                                         search.allowThrough) = -1)
          => search.path = <<>>

\* A search for a goal no route leads to, stopped by the iteration limit with
\* nodes still open.
C3_Witness ==
    /\ search.returned
    /\ search.path = <<>>
    /\ search.iterations = MAX_ITERATIONS
    /\ Len(search.openList) > 0
    /\ ShortestSteps(search.mover, SearchFrom, search.target, search.allowThrough) = -1

---------------------------------------------------------------------------
(* Reference definitions for the claims about the session *)

mover == chars[Mover]

MoverCell == <<mover.x, mover.y>>

Active == mover.pathfindingTarget # NULL

\* updatePathfinding will look at the next node in this frame: a session with
\* path left, and no step in animation once the engine has updated.
Following ==
    /\ Active
    /\ mover.pathfindingPath # NoPath
    /\ mover.pathfindingIndex < Len(mover.pathfindingPath)
    /\ ~isMoving(engineUpdate(mover))

NextNode == mover.pathfindingPath[mover.pathfindingIndex + 1]

\* The next step is due and the engine refuses it / allows it.
StepBlocked ==
    /\ Following
    /\ MoverCell # NextNode
    /\ ~canPass(Mover, mover.x, mover.y, StepDir(MoverCell, NextNode))

StepFree ==
    /\ Following
    /\ MoverCell # NextNode
    /\ canPass(Mover, mover.x, mover.y, StepDir(MoverCell, NextNode))

\* A route of passable edges leads from the mover's cell to the session's target.
RouteExists ==
    ShortestSteps(Mover, MoverCell, mover.pathfindingTarget, FALSE) >= 0

\* This frame issues no move, and leaves path, cursor and target alone.
NoMoveNoReplan ==
    /\ <<mover.x, mover.y>>' = <<mover.x, mover.y>>
    /\ mover.pathfindingPath' = mover.pathfindingPath
    /\ mover.pathfindingIndex' = mover.pathfindingIndex
    /\ mover.pathfindingTarget' = mover.pathfindingTarget

\* This frame adopts a new route to the target that is passable as things stand.
AdoptsRoute ==
    LET newPath == mover.pathfindingPath'
    IN  /\ newPath # NoPath
        /\ Len(newPath) >= 2
        /\ newPath[1] = MoverCell
        /\ newPath[Len(newPath)] = mover.pathfindingTarget
        /\ \A i \in 1..(Len(newPath) - 1) :
              canPass(Mover, newPath[i][1], newPath[i][2], StepDir(newPath[i], newPath[i + 1]))
        /\ mover.pathfindingIndex' = 0
        /\ mover.pathfindingStuckCount' = 0
        /\ mover.forcingThrough' = FALSE
        /\ mover.through' = mover.normalThrough
        /\ mover.pathfindingTarget' = mover.pathfindingTarget
        /\ <<mover.x, mover.y>>' = <<mover.x, mover.y>>

\* The tick in which stuckCount reaches 3 with recalculateIfBlocked set.
ThirdBlockedTick ==
    /\ StepBlocked
    /\ mover.pathfindingStuckCount = 2
    /\ mover.recalculateIfBlocked

\* The frames of a session that walks its path: blocked for the first or the
\* second time in a row it waits; on the next node it advances the cursor; with
\* the step free it takes it.
WaitsAndFollows ==
    /\ (StepBlocked /\ mover.pathfindingStuckCount < 2) =>
          /\ NoMoveNoReplan
          /\ mover.pathfindingStuckCount' = mover.pathfindingStuckCount + 1
    /\ (Following /\ MoverCell = NextNode) =>
          /\ mover.pathfindingIndex' = mover.pathfindingIndex + 1
          /\ mover.pathfindingPath' = mover.pathfindingPath
          /\ <<mover.x, mover.y>>' = <<mover.x, mover.y>>
    /\ StepFree =>
          /\ <<mover.x, mover.y>>' = NextNode
          /\ mover.pathfindingPath' = mover.pathfindingPath
          /\ mover.pathfindingIndex' = mover.pathfindingIndex

---------------------------------------------------------------------------
(* C4 *)

\* C4 as stated: blocked with recalculateIfBlocked set while a route to the
\* target exists, the frame in which stuckCount reaches 3 adopts that route
\* (cursor 0, stuckCount 0, not forcing, normal passability, no move); no move
\* is issued in the blocked frames before it, and the route is then followed.
C4_Original ==
    [][Update(Mover) =>
          /\ WaitsAndFollows
          /\ (ThirdBlockedTick /\ RouteExists) => AdoptsRoute]_vars

\* C4 as amended: the same, for a search that MAX_ITERATIONS cannot cut short
\* (MAX_ITERATIONS is at least the number of cells of the map).
C4_SwitchesToAlternateRoute ==
    [][Update(Mover) =>
          /\ WaitsAndFollows
          /\ (ThirdBlockedTick /\ RouteExists /\ MAX_ITERATIONS >= width * height)
                => AdoptsRoute]_vars

\* Blocked twice in a row, about to be blocked a third time, with another
\* route to the target and a search that cannot be cut short.
C4_Witness ==
    /\ ThirdBlockedTick
    /\ RouteExists
    /\ MAX_ITERATIONS >= width * height

---------------------------------------------------------------------------
(* C5 *)

\* This frame forces the step: forcingThrough and the through override are
\* set, the agent moves onto the next node, stuckCount is reset, and path,
\* cursor and target stay.
ForcesStep ==
    /\ mover.forcingThrough' = TRUE
    /\ mover.through' = TRUE
    /\ <<mover.x, mover.y>>' = NextNode
    /\ mover.moving' = StepFrames
    /\ mover.pathfindingStuckCount' = 0
    /\ mover.pathfindingPath' = mover.pathfindingPath
    /\ mover.pathfindingIndex' = mover.pathfindingIndex
    /\ mover.pathfindingTarget' = mover.pathfindingTarget

\* The frame in which stuckCount reaches 3 with recalculateIfBlocked and
\* ThroughIfHardBlocked set and no route to the target forces the step.
ForcedOnThirdTick ==
    (ThirdBlockedTick /\ THROUGH_IF_HARD_BLOCKED /\ ~RouteExists) => ForcesStep

\* C5 as stated: the blocked frame in which stuckCount reaches 3, with
\* recalculateIfBlocked and ThroughIfHardBlocked set and no route to the target,
\* forces the step; the very next frame clears forcingThrough and restores
\* normal passability.
C5_Original ==
    [][Update(Mover) =>
          /\ ForcedOnThirdTick
          /\ mover.forcingThrough =>
                /\ mover.forcingThrough' = FALSE
                /\ mover.through' = mover.normalThrough]_vars

\* C5 as amended: the same forced step; forcingThrough and the override stay
\* while the step's animation runs, and the first frame after the animation has
\* completed clears forcingThrough and restores normal passability.
C5_ForcedThenRestored ==
    [][Update(Mover) =>
          /\ ForcedOnThirdTick
          /\ (mover.forcingThrough /\ isMoving(engineUpdate(mover))) =>
                /\ mover.forcingThrough' = TRUE
                /\ mover.through' = TRUE
          /\ (mover.forcingThrough /\ ~isMoving(engineUpdate(mover))) =>
                /\ mover.forcingThrough' = FALSE
                /\ mover.through' = mover.normalThrough
                /\ mover.through' = FALSE]_vars

\* The forced step has just been issued: the agent stands on the cell that was
\* blocked, with the override on and the whole animation ahead.
C5_Witness ==
    /\ mover.forcingThrough
    /\ mover.through
    /\ mover.moving = StepFrames
    /\ mover.recalculateIfBlocked
    /\ THROUGH_IF_HARD_BLOCKED
    /\ MoverCell = NextNode

---------------------------------------------------------------------------
(* C6 *)

\* C6: a session blocked for the first or the second frame in a row issues no
\* move and starts no search (path, cursor and target stay, stuckCount becomes
\* 1, then 2); the first frame in which the step is free again takes the step
\* along the same path with stuckCount back at 0.
C6_TemporaryBlock ==
    [][Update(Mover) =>
          /\ (StepBlocked /\ mover.pathfindingStuckCount < 2) =>
                /\ NoMoveNoReplan
                /\ mover.pathfindingStuckCount' = mover.pathfindingStuckCount + 1
                /\ mover.pathfindingStuckCount' < 3
                /\ mover.forcingThrough' = mover.forcingThrough
                /\ mover.through' = mover.through
          /\ StepFree =>
                /\ <<mover.x, mover.y>>' = NextNode
                /\ mover.pathfindingStuckCount' = 0
                /\ mover.pathfindingPath' = mover.pathfindingPath
                /\ mover.pathfindingIndex' = mover.pathfindingIndex
                /\ mover.pathfindingTarget' = mover.pathfindingTarget]_vars

\* Blocked for two frames in a row, and free now.
C6_Witness ==
    /\ StepFree
    /\ mover.pathfindingStuckCount = 2

---------------------------------------------------------------------------
(* C7 *)

\* C7: in every reachable state of a session the stored snapshot
\* originalThrough equals the agent's normal through flag, and with no session
\* the agent's through flag is its normal one.
C7_SnapshotIsNormalFlag ==
    /\ Active => mover.originalThrough = mover.normalThrough
    /\ ~Active => mover.through = mover.normalThrough

---------------------------------------------------------------------------
(* C8 *)

\* C8: forcingThrough becomes true only in a frame that issues the forced move,
\* no move is issued while it is true (it is cleared first), and the through
\* override is on exactly while forcingThrough is true.
C8_ForcingOneStep ==
    [][/\ (~mover.forcingThrough /\ mover.forcingThrough') =>
              /\ Update(Mover)
              /\ <<mover.x, mover.y>>' = NextNode
              /\ <<mover.x, mover.y>>' # MoverCell
       /\ mover.forcingThrough => <<mover.x, mover.y>>' = MoverCell
       /\ mover.forcingThrough' <=> (mover.through' # mover.normalThrough)]_vars

---------------------------------------------------------------------------
(* C10 *)

\* The other event stands on the next node and no route leads to the target.
HardBlocked ==
    /\ StepBlocked
    /\ <<chars[Other].x, chars[Other].y>> = NextNode
    /\ ~RouteExists

\* C10: with ThroughIfHardBlocked enabled, a hard-blocked session that has
\* waited two frames forces the step in the next blocked frame, whatever its
\* recalculateIfBlocked.
C10_ForcedWhateverRecalculate ==
    [][(Update(Mover) /\ HardBlocked /\ THROUGH_IF_HARD_BLOCKED
           /\ mover.pathfindingStuckCount >= 2) => ForcesStep]_vars

---------------------------------------------------------------------------
(* C9 *)

\* A session with a path to walk.
Started ==
    /\ Active
    /\ mover.pathfindingPath # NoPath
    /\ Len(mover.pathfindingPath) > 0

\* C9: with recalculateIfBlocked and ThroughIfHardBlocked set, static terrain,
\* occupants that come to rest and update called every frame, every session
\* with a non-empty path eventually ends, and the frame that ends it finds the
\* agent on the last cell of the path the session then holds.
C9_EventuallyArrives ==
    /\ Started ~> ~Active
    /\ [][(Started /\ ~Active') =>
             /\ MoverCell = mover.pathfindingPath[Len(mover.pathfindingPath)]
             /\ <<mover.x, mover.y>>' = MoverCell]_vars

\* The world has come to rest and a session has ended after walking a path of
\* two cells or more (the cursor stays where the session left it).
C9_Witness ==
    /\ ~Active
    /\ external = MaxExternal
    /\ mover.recalculateIfBlocked
    /\ mover.pathfindingIndex >= 2

---------------------------------------------------------------------------
(* C11 *)

\* The in-bounds cells within Manhattan radius maxRadius of target that
\* findPath (allowThrough = false) reaches from the cell of character c.
ReachableNearOf(c, target) ==
    {cell \in Cells : /\ Manhattan(cell, target) <= maxRadius
                      /\ Len(findPath(c, cell[1], cell[2], FALSE)) > 0}

ReachableNear == ReachableNearOf(scan.mover, scan.target)

\* C11: findClosestAccessiblePoint returns null exactly when findPath reaches
\* no in-bounds cell within radius 5 of the target; otherwise it returns such a
\* cell at the least Manhattan distance from the target, found in the ring of
\* that radius, the rings before it (scanned from radius 0 up) holding none.
C11_ClosestAccessible ==
    /\ scan.returned =>
          /\ scan.closestPoint = NULL <=> ReachableNear = {}
          /\ scan.closestPoint # NULL =>
                /\ scan.closestPoint \in ReachableNear
                /\ \A cell \in ReachableNear :
                      Manhattan(scan.closestPoint, scan.target) <= Manhattan(cell, scan.target)
                /\ scan.radius = Manhattan(scan.closestPoint, scan.target)
          /\ scan.closestPoint =
                findClosestAccessiblePoint(scan.mover, scan.target[1], scan.target[2])
    /\ ~scan.returned =>
          \A cell \in ReachableNear : Manhattan(cell, scan.target) >= scan.radius

\* A scan that passed over two rings and more before it found a cell.
C11_Witness ==
    /\ scan.returned
    /\ scan.closestPoint # NULL
    /\ scan.radius >= 2

---------------------------------------------------------------------------
(* Reference definitions for the claims about the fallback *)

LastCell(path) == path[Len(path)]

\* The agent cannot step onto goal from any neighbouring cell.
CannotEnter(goal) ==
    \A d \in Dirs :
        CellAt(goal, d) \in Cells => ~PassableEdge(Mover, CellAt(goal, d), reverseDir(d), FALSE)

\* The cells next to goal that a route of passable edges leads to.
ApproachByRoute(goal) ==
    {n \in Cells : /\ Manhattan(n, goal) = 1
                   /\ ShortestSteps(Mover, MoverCell, n, FALSE) >= 0}

\* The cells next to goal that findPath reaches.
ApproachByFindPath(goal) ==
    {n \in Cells : /\ Manhattan(n, goal) = 1
                   /\ Len(findPath(Mover, n[1], n[2], FALSE)) > 0}

\* This step is the MoveTo command for goal (the step that counts a command).
CommandFor(goal) ==
    /\ external' = external + 1
    /\ mover.pathfindingTarget' = goal

\* While the session lasts an update leaves its target and its path alone; the
\* update that ends it finds the agent on the last cell of its path.
KeepsTargetEndsOnPath ==
    Update(Mover) =>
        /\ (Active /\ Active') =>
              /\ mover.pathfindingTarget' = mover.pathfindingTarget
              /\ mover.pathfindingPath' = mover.pathfindingPath
        /\ (Started /\ ~Active') =>
              /\ MoverCell = LastCell(mover.pathfindingPath)
              /\ <<mover.x, mover.y>>' = MoverCell

\* A session with a path to walk ends.
SessionEnds == Started ~> ~Active

---------------------------------------------------------------------------
(* C12 *)

\* C12 as stated: a goal the agent cannot enter, next to exactly one cell that
\* a route leads to: startPathfinding stores a path from the agent's cell to
\* that cell with the goal as the target; target and path stay while the
\* session follows the path, and the session ends, with the agent on the last
\* cell of the path.
C12_Original ==
    /\ [][\A goal \in Cells :
             (goal # MoverCell /\ CannotEnter(goal)
                /\ Cardinality(ApproachByRoute(goal)) = 1 /\ CommandFor(goal)) =>
                   /\ mover.pathfindingPath' # <<>>
                   /\ mover.pathfindingPath'[1] = MoverCell
                   /\ LastCell(mover.pathfindingPath') \in ApproachByRoute(goal)]_vars
    /\ [][KeepsTargetEndsOnPath]_vars
    /\ SessionEnds

\* C12 as amended: the same, for a goal next to exactly one cell that findPath
\* reaches within MAX_ITERATIONS.
C12_ApproachCell ==
    /\ [][\A goal \in Cells :
             (goal # MoverCell /\ CannotEnter(goal)
                /\ Cardinality(ApproachByFindPath(goal)) = 1 /\ CommandFor(goal)) =>
                   /\ mover.pathfindingPath' # <<>>
                   /\ mover.pathfindingPath'[1] = MoverCell
                   /\ LastCell(mover.pathfindingPath') \in ApproachByFindPath(goal)]_vars
    /\ [][KeepsTargetEndsOnPath]_vars
    /\ SessionEnds

\* The session has ended with the agent two steps or more from where it
\* started, next to the goal of the command, which it cannot enter.
C12_Witness ==
    /\ ~Active
    /\ external = MaxCommands
    /\ mover.pathfindingIndex >= 3
    /\ \E goal \in Cells :
          /\ Manhattan(goal, MoverCell) = 1
          /\ CannotEnter(goal)
          /\ Cardinality(ApproachByFindPath(goal)) = 1

---------------------------------------------------------------------------
(* C13 *)

IsWall(cell) == \A d \in Dirs : <<cell[1], cell[2], d>> \in blocked

\* Every in-bounds neighbour of goal is a wall tile, and the agent stands
\* elsewhere, not on a wall.
EnclosedGoal(goal) ==
    /\ goal # MoverCell
    /\ ~IsWall(MoverCell)
    /\ \A d \in Dirs : CellAt(goal, d) \in Cells => IsWall(CellAt(goal, d))

\* While a session holds a path of no step, an update does not move the agent.
NoStepNoMove ==
    (Update(Mover) /\ Active /\ mover.pathfindingPath # NoPath /\ Len(mover.pathfindingPath) <= 1)
        => <<mover.x, mover.y>>' = MoverCell

\* C13 as stated: a command for a goal enclosed by walls stores a path of no
\* step (empty, or the agent's own cell), a session with such a path never
\* moves the agent, and the session ends.
C13_Original ==
    /\ [][\A goal \in Cells :
             (EnclosedGoal(goal) /\ CommandFor(goal)) =>
                 mover.pathfindingPath' \in {<<>>, <<MoverCell>>}]_vars
    /\ [][NoStepNoMove]_vars
    /\ Active ~> ~Active

\* C13 as amended: a command for a goal enclosed by walls stores the empty path
\* exactly when findPath reaches no cell within radius 5 of the goal, and
\* otherwise a path from the agent's cell to such a cell nearest to the goal,
\* outside the enclosure; the session moves the agent only if that path has a
\* step, leaves target and path alone, and ends with the agent on the path's
\* last cell.
C13_EnclosedGoal ==
    /\ [][\A goal \in Cells :
             (EnclosedGoal(goal) /\ CommandFor(goal)) =>
                LET near == ReachableNearOf(Mover, goal)
                    path == mover.pathfindingPath'
                IN  /\ path = <<>> <=> near = {}
                    /\ path # <<>> =>
                          /\ path[1] = MoverCell
                          /\ LastCell(path) \in near
                          /\ LastCell(path) # goal
                          /\ \A cell \in near :
                                Manhattan(LastCell(path), goal) <= Manhattan(cell, goal)]_vars
    /\ [][NoStepNoMove]_vars
    /\ [][KeepsTargetEndsOnPath]_vars
    /\ Active ~> ~Active

\* A session for a goal enclosed by walls that has walked a step and more
\* towards the cell it goes to instead.
C13_Witness ==
    /\ Active
    /\ Started
    /\ mover.pathfindingTarget \in Cells
    /\ EnclosedGoal(mover.pathfindingTarget)
    /\ mover.pathfindingIndex >= 2

---------------------------------------------------------------------------
(* C14 *)

\* This step is the MoveTo command for goal, and findPath reaches neither goal
\* nor any other cell within radius 5 of it.
CommandInVain(goal) ==
    /\ CommandFor(goal)
    /\ ReachableNearOf(Mover, goal) = {}

\* C14 as stated: when findPath reaches neither the goal nor any cell the
\* fallback looks at, the session has no target and no path on return from
\* startPathfinding, and the agent is not moved.
C14_Original ==
    [][\A goal \in Cells :
          CommandInVain(goal) =>
              /\ ~Active'
              /\ mover.pathfindingPath' \in {NoPath, <<>>}
              /\ <<mover.x, mover.y>>' = MoverCell]_vars

\* C14 as amended: in that case the session holds the goal as its target and
\* the empty path on return from startPathfinding, the agent not moved; the
\* first updatePathfinding after it clears target and path without moving the
\* agent or changing its through flag.
C14_EndsOnFirstUpdate ==
    /\ [][\A goal \in Cells :
             CommandInVain(goal) =>
                 /\ mover.pathfindingTarget' = goal
                 /\ mover.pathfindingPath' = <<>>
                 /\ <<mover.x, mover.y>>' = MoverCell
                 /\ mover.through' = mover.through]_vars
    /\ [][(Update(Mover) /\ Active /\ mover.pathfindingPath = <<>>) =>
             /\ ~Active'
             /\ mover.pathfindingPath' = NoPath
             /\ <<mover.x, mover.y>>' = MoverCell
             /\ mover.moving' = 0
             /\ mover.through' = mover.through]_vars

\* The command has been given and its session has ended without the cursor
\* ever advancing: the stored path was empty.
C14_Witness ==
    /\ ~Active
    /\ external = MaxCommands
    /\ mover.pathfindingIndex = 0
    /\ mover.pathfindingPath = NoPath

---------------------------------------------------------------------------
(* C15 *)

\* findPath from the agent's cell to that same cell returns in its first
\* iteration, with no node expanded, the path of that one cell.
TrivialSearch(allowThrough) ==
    LET s == SearchRun(SearchStart(Mover, mover.x, mover.y, allowThrough))
    IN  /\ s.path = <<MoverCell>>
        /\ s.iterations = 1
        /\ s.closedList = <<>>
        /\ Len(s.openList) = 1

\* C15: findPath to the start cell returns the one-cell path at once, without
\* expanding a neighbour; a command whose goal is the agent's cell stores that
\* path, the session never moves the agent, and it ends.
C15_StartIsGoal ==
    /\ [][CommandFor(MoverCell) =>
             /\ TrivialSearch(FALSE)
             /\ TrivialSearch(TRUE)
             /\ mover.pathfindingPath' = <<MoverCell>>
             /\ <<mover.x, mover.y>>' = MoverCell]_vars
    /\ [][NoStepNoMove]_vars
    /\ (Active /\ mover.pathfindingTarget = MoverCell) ~> ~Active

\* A session for the agent's own cell after its first update: the cursor has
\* passed the one cell of the path.
C15_Witness ==
    /\ Active
    /\ mover.pathfindingTarget = MoverCell
    /\ mover.pathfindingPath = <<MoverCell>>
    /\ mover.pathfindingIndex = 1

---------------------------------------------------------------------------
(* C16 *)

\* C16: on a map without obstacles a search whose start and goal are fewer
\* than MAX_ITERATIONS steps apart (Manhattan) returns a path of exactly that
\* many steps from the start to the goal, after one iteration per cell of the
\* path; from (0,0) to (5,7) on the 10x10 map with MaxIteration 500 that is a
\* path of 12 steps.
C16_OpenGrid ==
    search.returned =>
        /\ Manhattan(SearchFrom, search.target) < MAX_ITERATIONS =>
              /\ search.path # <<>>
              /\ Len(search.path) - 1 = Manhattan(SearchFrom, search.target)
              /\ search.path[1] = SearchFrom
              /\ LastCell(search.path) = search.target
              /\ search.iterations = Len(search.path)
        /\ width = ScenarioSize =>
              /\ Len(search.path) - 1 = ScenarioGoalX + ScenarioGoalY
              /\ LastCell(search.path) = <<ScenarioGoalX, ScenarioGoalY>>

\* The search on the 10x10 map has returned its path.
C16_Witness ==
    /\ search.returned
    /\ width = ScenarioSize
    /\ height = ScenarioSize
    /\ SearchFrom = <<0, 0>>
    /\ Len(search.path) = ScenarioGoalX + ScenarioGoalY + 1

---------------------------------------------------------------------------
(* C17 *)

\* C17: findPath returns the empty path only with the open list empty or the
\* iteration count at MAX_ITERATIONS; when it does so below MAX_ITERATIONS no
\* route of passable edges leads from the start to the goal; and with a route
\* and MAX_ITERATIONS at least the number of cells of the map it returns a
\* non-empty path.
C17_NotFoundOnlyIf ==
    search.returned =>
        LET steps == ShortestSteps(search.mover, SearchFrom, search.target, search.allowThrough)
        IN  /\ search.path = <<>> =>
                  /\ Len(search.openList) = 0 \/ search.iterations = MAX_ITERATIONS
                  /\ search.iterations < MAX_ITERATIONS => steps = -1
            /\ (steps >= 0 /\ MAX_ITERATIONS >= width * height) => search.path # <<>>

\* A search that gave up below the limit, every cell it could get to expanded.
C17_Witness ==
    /\ search.returned
    /\ search.path = <<>>
    /\ Len(search.openList) = 0
    /\ search.iterations < MAX_ITERATIONS
    /\ search.iterations >= 3

---------------------------------------------------------------------------
(* C18 *)

\* The fields of the session and of the agent the session acts on.
SessionFields(ch) ==
    << ch.pathfindingTarget, ch.pathfindingPath, ch.pathfindingIndex,
       ch.pathfindingStuckCount, ch.forcingThrough, ch.through, ch.x, ch.y >>

\* A frame of the mover without a session: no command has set a target and the
\* other event stays where it is.
IdleFrame ==
    /\ ~Active
    /\ ~Active'
    /\ chars'[Other] = chars[Other]

\* C18: with no session (the target cleared after the arrival, or never set), a
\* frame's updatePathfinding issues no move and changes none of target, path,
\* cursor, stuckCount, forcingThrough, through flag and position.
C18_IdleIsNoOp == [][IdleFrame => SessionFields(mover)' = SessionFields(mover)]_vars

\* A session that walked a path of two nodes or more to its end and was closed.
C18_Witness ==
    /\ ~Active
    /\ mover.pathfindingPath = NoPath
    /\ mover.pathfindingIndex >= 2
    /\ ~isMoving(mover)

---------------------------------------------------------------------------
(* C19 *)

\* A frame of the mover: neither a command nor a move of the other event.
Frame == external' = external

\* The step in animation is not over once the engine has updated.
MidAnimation == isMoving(engineUpdate(mover))

MoveIssued == MoverCell' # MoverCell

\* The session has no path left: updatePathfinding ends it (line 213).
PathExhausted ==
    /\ Active
    /\ mover.pathfindingPath = NoPath \/ mover.pathfindingIndex >= Len(mover.pathfindingPath)

\* The frame leaves path, cursor and stuckCount alone and issues no move.
NoMoveNoProgress ==
    /\ ~MoveIssued
    /\ mover.pathfindingPath' = mover.pathfindingPath
    /\ mover.pathfindingIndex' = mover.pathfindingIndex
    /\ mover.pathfindingStuckCount' = mover.pathfindingStuckCount

\* The frame moves the mover by one cell at most, and not at all when it
\* advances the cursor or adopts a new path.
OneMoveAtMost ==
    /\ Manhattan(MoverCell, MoverCell') <= 1
    /\ mover.pathfindingIndex' = mover.pathfindingIndex + 1 => ~MoveIssued
    /\ (Active' /\ mover.pathfindingPath' # mover.pathfindingPath) => ~MoveIssued

\* C19 as stated: a frame issues one move at most, none in the frame that
\* advances the cursor or adopts a new path, and in every frame inside a step's
\* animation no move and no change of path, cursor or stuckCount.
C19_Original ==
    [][Frame => /\ OneMoveAtMost
                /\ MidAnimation => NoMoveNoProgress]_vars

\* C19: a frame issues one move at most, and none in the frame that advances
\* the cursor or adopts a new path.  Inside a step's animation a session with
\* path left, and an agent without a session, see no move and no change of
\* path, cursor or stuckCount; a session with no path left is ended in that
\* very frame, its path and target cleared, without a move.
C19_OneMovePerFrame ==
    [][Frame => /\ OneMoveAtMost
                /\ (MidAnimation /\ ~PathExhausted) => NoMoveNoProgress
                /\ (MidAnimation /\ PathExhausted) =>
                      /\ ~MoveIssued
                      /\ ~Active'
                      /\ mover.pathfindingPath' = NoPath]_vars

\* A session with path left, its step just begun.
C19_Witness ==
    /\ Active
    /\ mover.moving = StepFrames
    /\ ~PathExhausted
    /\ mover.pathfindingIndex >= 1

\* A command of which both searches failed, given while a step is in animation.
C19_EndedMidAnimation ==
    /\ Active
    /\ mover.moving = StepFrames
    /\ mover.pathfindingPath = <<>>

---------------------------------------------------------------------------
(* C20 *)

OtherCell == <<chars[Other].x, chars[Other].y>>

\* C20: the target a command stored stays the session's target: a frame leaves
\* it alone or, with no path left, clears it; a move of the other event, the
\* session's target or not, leaves it alone; and a path adopted in a frame ends
\* on it.
C20_TargetFixed ==
    [][/\ Frame =>
             /\ \/ mover.pathfindingTarget' = mover.pathfindingTarget
                \/ PathExhausted /\ mover.pathfindingTarget' = NULL
             /\ (Active' /\ mover.pathfindingPath' # mover.pathfindingPath) =>
                   LastCell(mover.pathfindingPath') = mover.pathfindingTarget
       /\ OtherCell' # OtherCell =>
             /\ mover.pathfindingTarget' = mover.pathfindingTarget
             /\ mover.pathfindingPath' = mover.pathfindingPath]_vars

\* On a map without walls, the search not cut short, a session whose path ends
\* short of its target was aimed at the cell of the other event; the event has
\* since moved off, and the cell is the target still.
C20_Witness ==
    /\ Active
    /\ blocked = {}
    /\ MAX_ITERATIONS > SmallCap
    /\ ~mover.normalThrough
    /\ mover.pathfindingPath # NoPath
    /\ mover.pathfindingPath # <<>>
    /\ mover.pathfindingIndex >= 1
    /\ LastCell(mover.pathfindingPath) # mover.pathfindingTarget
    /\ OtherCell # mover.pathfindingTarget

---------------------------------------------------------------------------
(* C21 *)

\* What the last MoveTo command was given.
SubjectUnresolved == ResolveSubject(moveTo) = NoCharacter

TargetEventUnresolved ==
    moveTo.targetType = "event" /\ gameMapEvent(moveTo.targetEventId) = NoCharacter

TargetOutsideMap ==
    moveTo.targetType = "coordinates" /\ ~isValid(moveTo.targetX, moveTo.targetY)

\* C21: a MoveTo command lets no exception through to its caller, and does not
\* call startPathfinding when its subject is no character, when its target
\* event id is no event's, or when its target coordinates lie outside the map.
C21_Validates ==
    moveTo.called =>
        /\ moveTo.raised = "none"
        /\ (SubjectUnresolved \/ TargetEventUnresolved \/ TargetOutsideMap) => ~moveTo.started

---------------------------------------------------------------------------
(* C23 *)

\* The cursor of a session with a path lies between 0 and the length of the path.
CursorInRange ==
    (Active /\ mover.pathfindingPath # NoPath) =>
        /\ mover.pathfindingIndex >= 0
        /\ mover.pathfindingIndex <= Len(mover.pathfindingPath)

\* A frame that keeps the path does not lower the cursor;
\* a frame raises it by one only, with the mover on path[cursor]; a frame
\* lowers it only to 0, adopting the path of a new search in the third blocked
\* tick; a move of the other event leaves it alone; a command sets it to 0.
CursorSteps ==
    /\ Frame =>
          /\ mover.pathfindingPath' = mover.pathfindingPath =>
                mover.pathfindingIndex' >= mover.pathfindingIndex
          /\ mover.pathfindingIndex' > mover.pathfindingIndex =>
                /\ mover.pathfindingIndex' = mover.pathfindingIndex + 1
                /\ Following
                /\ MoverCell = NextNode
                /\ mover.pathfindingPath' = mover.pathfindingPath
          /\ mover.pathfindingIndex' < mover.pathfindingIndex =>
                /\ mover.pathfindingIndex' = 0
                /\ ThirdBlockedTick
                /\ Active'
                /\ mover.pathfindingPath' # mover.pathfindingPath
    /\ (~Frame /\ OtherCell' # OtherCell) =>
          mover.pathfindingIndex' = mover.pathfindingIndex
    /\ (~Frame /\ OtherCell' = OtherCell) =>
          mover.pathfindingIndex' = 0

\* C23: the cursor stays within the path, rises by one at a time on path[cursor]
\* only, and falls only to 0 by startPathfinding or by an adopted new path.
C23_Cursor == [][CursorSteps /\ CursorInRange']_vars

\* The cursor at the end of a path of three nodes or more, the session not yet ended.
C23_Witness ==
    /\ Active
    /\ mover.pathfindingPath # NoPath
    /\ Len(mover.pathfindingPath) >= 3
    /\ mover.pathfindingIndex = Len(mover.pathfindingPath)

---------------------------------------------------------------------------
(* C24 *)

\* The mover stands on path[cursor] or on the cell of the path before it.
OnPath ==
    LET path == mover.pathfindingPath
        cursor == mover.pathfindingIndex
    IN  /\ path # NoPath
        /\ \/ cursor < Len(path) /\ MoverCell = path[cursor + 1]
           \/ cursor >= 1 /\ cursor <= Len(path) /\ MoverCell = path[cursor]

\* The frame ends the session at the end of a non-empty path.
Arrives ==
    /\ Frame
    /\ Active
    /\ ~Active'
    /\ mover.pathfindingPath # NoPath
    /\ mover.pathfindingPath # <<>>

ArrivesOnLastCell ==
    Arrives =>
        /\ MoverCell' = LastCell(mover.pathfindingPath)
        /\ ~isMoving(mover')

\* C24 as stated: the mover of an active session stands on path[cursor] or on
\* the path cell before it, and a session that ends at the end of a non-empty
\* path leaves the mover on the last cell of the path, its step over.
C24_Original == [][(Active' => OnPath') /\ ArrivesOnLastCell]_vars

\* C24: the mover of an active session whose path is not empty stands on
\* path[cursor] or on the path cell before it; the path of an active session is
\* empty only when both searches of its command failed; a session that ends at
\* the end of a non-empty path leaves the mover on the last cell of the path,
\* its step over.
C24_OnPath ==
    [][/\ (Active' /\ mover.pathfindingPath' # <<>>) => OnPath'
       /\ (Active' /\ mover.pathfindingPath' = <<>>) =>
             /\ ~Frame
             /\ ~Accessible(Mover, mover.pathfindingTarget'[1], mover.pathfindingTarget'[2])
             /\ findClosestAccessiblePoint(Mover, mover.pathfindingTarget'[1],
                                            mover.pathfindingTarget'[2]) = NULL
       /\ ArrivesOnLastCell]_vars

\* The mover one step short of the end of a path of three nodes or more, the
\* step begun.
C24_Witness ==
    /\ Active
    /\ mover.pathfindingPath # NoPath
    /\ Len(mover.pathfindingPath) >= 3
    /\ mover.pathfindingIndex = Len(mover.pathfindingPath) - 1
    /\ MoverCell = LastCell(mover.pathfindingPath)
    /\ isMoving(mover)

---------------------------------------------------------------------------
(* C25 *)

\* C25: with recalculateIfBlocked and ThroughIfHardBlocked both set the stuck
\* count is 2 at most after every step; it is 0 after a step that moves the
\* mover, advances the cursor or replaces the path; and a step raises it above
\* 2 only without recalculateIfBlocked, or with ThroughIfHardBlocked disabled
\* and no path to the target found from where the mover stands.
C25_StuckCount ==
    [][/\ (mover.recalculateIfBlocked' /\ THROUGH_IF_HARD_BLOCKED) =>
             mover.pathfindingStuckCount' <= 2
       /\ \/ MoveIssued
          \/ mover.pathfindingIndex' = mover.pathfindingIndex + 1
          \/ Active' /\ mover.pathfindingPath' # mover.pathfindingPath
          => mover.pathfindingStuckCount' = 0
       /\ (mover.pathfindingStuckCount' > 2 /\ mover.pathfindingStuckCount' > mover.pathfindingStuckCount) =>
             /\ StepBlocked
             /\ \/ ~mover.recalculateIfBlocked
                \/ /\ ~THROUGH_IF_HARD_BLOCKED
                   /\ ~Accessible(Mover, mover.pathfindingTarget[1], mover.pathfindingTarget[2])]_vars

\* The third blocked tick of a session with both settings ended in a forced
\* step: the stuck count is back at 0.
C25_Witness ==
    /\ Active
    /\ THROUGH_IF_HARD_BLOCKED
    /\ mover.recalculateIfBlocked
    /\ mover.forcingThrough
    /\ mover.moving = StepFrames
    /\ mover.pathfindingStuckCount = 0

\* The stuck count above 2, in a session without recalculateIfBlocked and in
\* one whose new search failed with ThroughIfHardBlocked disabled.
C25_GrownWithoutRecalculate ==
    /\ Active
    /\ mover.pathfindingStuckCount > 2
    /\ ~mover.recalculateIfBlocked

C25_GrownWithoutThrough ==
    /\ Active
    /\ mover.pathfindingStuckCount > 2
    /\ mover.recalculateIfBlocked
    /\ ~THROUGH_IF_HARD_BLOCKED

---------------------------------------------------------------------------
(* C27 *)

\* The mover's step of this frame crosses an edge inside the map that both of
\* its tiles allow.
CrossesPassableEdge ==
    LET d == StepDir(MoverCell, MoverCell')
    IN  /\ Manhattan(MoverCell, MoverCell') = 1
        /\ isValid(MoverCell'[1], MoverCell'[2])
        /\ isMapPassable(mover.x, mover.y, d)

\* C27: every step a session makes, a forced one included, with an agent whose
\* own Through setting is off, crosses an edge inside the map that is
\* map-passable.
C27_MovesOverPassableEdges ==
    [][(MoveIssued /\ ~mover.normalThrough) => CrossesPassableEdge]_vars

---------------------------------------------------------------------------
(* C26 *)

\* No agent's own Through setting is on.
NoThroughAgents == \A c \in CharIds : ~chars[c].normalThrough

\* C26: with ThroughIfHardBlocked disabled and no through agent, agents moved
\* by their sessions only, updated in any order, never stand on the same cell.
C26_DistinctCells ==
    (~THROUGH_IF_HARD_BLOCKED /\ NoThroughAgents) =>
        \A c1 \in CharIds, c2 \in CharIds :
            c1 # c2 => <<chars[c1].x, chars[c1].y>> # <<chars[c2].x, chars[c2].y>>

\* Both agents in sessions, one of them held up by the other on its next node.
C26_Witness ==
    /\ ~THROUGH_IF_HARD_BLOCKED
    /\ NoThroughAgents
    /\ \A c \in CharIds : chars[c].pathfindingTarget # NULL
    /\ StepBlocked
    /\ NextNode = OtherCell
    /\ mover.pathfindingStuckCount >= 1
    /\ chars[Other].pathfindingIndex >= 1

---------------------------------------------------------------------------
(* C22 *)

\* The toast windows on display.
VisibleToasts == {i \in 1..Len(sceneWindows) : sceneWindows[i].visible}

\* C22: the toasts on display at once are MaxToasts at most.
C22_AtMostMaxToasts == Cardinality(VisibleToasts) <= MAX_TOASTS

\* MaxToasts is 1 and two toasts are on display: the first, taken off the list
\* with its display time not yet over, has only begun to fade.
C22_FadingBesideNew ==
    /\ MAX_TOASTS = 1
    /\ Len(sceneWindows) = 2
    /\ sceneWindows[1].visible
    /\ sceneWindows[1].count = 0
    /\ sceneWindows[1].contentsOpacity > FullOpacity - 2 * OpacityStep
    /\ sceneWindows[2].visible
    /\ sceneWindows[2].count = DISPLAY_TIME - 1
    /\ activeToasts = <<2>>

---------------------------------------------------------------------------
(* C28 *)

\* The messages shown so far, in the order in which their windows were made.
Displayed == [i \in 1..Len(sceneWindows) |-> sceneWindows[i].text]

\* The messages shown and then the messages waiting are the messages of the
\* calls, each once, in call order.
NothingLostOrRepeated == Displayed \o toastQueue = [i \in 1..calls |-> i]

\* This step takes a message from the queue and shows it.
Dequeues == Len(sceneWindows') > Len(sceneWindows)

\* A step shows one message at most; it then sets isProcessingQueue and a timer;
\* a showToast call shows its message only with no message being processed, and
\* otherwise appends it to the queue; no more than one timer is ever pending.
OneMessagePerTimer ==
    /\ Len(sceneWindows') <= Len(sceneWindows) + 1
    /\ Dequeues => isProcessingQueue' /\ timeouts' = 1
    /\ (Dequeues /\ calls' # calls) => ~isProcessingQueue
    /\ (calls' # calls /\ isProcessingQueue) => toastQueue' = Append(toastQueue, calls')
    /\ timeouts' <= 1
    /\ isProcessingQueue' <=> timeouts' = 1

\* C28: every message passed to showToast is shown once and in call order, a
\* call during processing is queued, one message at most is taken between two
\* firings of the timer, and with the timer firing the queue empties.
C28_EachMessageOnceInOrder ==
    /\ [][NothingLostOrRepeated' /\ OneMessagePerTimer]_vars
    /\ (toastQueue # <<>>) ~> (toastQueue = <<>>)

\* Two calls made while the first message was being processed wait in the queue.
C28_Witness ==
    /\ isProcessingQueue
    /\ calls = MaxMessages
    /\ Len(toastQueue) = MaxMessages - 1
    /\ Len(sceneWindows) = 1

\* All messages of the calls have been shown and the queue is empty.
C28_AllDisplayed ==
    /\ calls = MaxMessages
    /\ toastQueue = <<>>
    /\ Displayed = [i \in 1..MaxMessages |-> i]

=============================================================================
